---- MODULE Spec2Model ----
(***************************************************************************)
(* Model of the REST transport of bitmex-rs (src/src/transport.rs):        *)
(* URL and body construction, request signing, dispatch through the HTTP   *)
(* client, and the response pipeline of handle_response.                   *)
(*                                                                         *)
(* Strings are sequences of one-character strings, so concatenation,       *)
(* ordering, escaping and encoding are computed, not assumed.              *)
(***************************************************************************)
EXTENDS Integers, Sequences, FiniteSets, TLC

VARIABLES
    credential,   \* Transport.credential: Option<(String, String)>
    client,       \* Transport.client: the hyper client the Transport holds
    wire,         \* the requests the client has sent, each with the time it was sent
    now,          \* the wall clock read by Utc::now(), in whole seconds
    calls,        \* one record per call of get / signed_* made on the Transport
    signer        \* the last direct call of Transport::signature (as the tests make)

vars == <<credential, client, wire, now, calls, signer>>

----------------------------------------------------------------------------
(* Bounds of the model.                                                    *)

\* Seconds the clock may advance during a behaviour.
MaxTicks == 2
\* Longest sequence of (key, value) pairs a caller passes as params or data.
MaxFields == 2
\* Calls in flight together on one shared Transport (specification SpecShared).
MaxCalls == 2
\* Stand-in for the url crate's limit on offsets inside a URL (u32::MAX bytes,
\* ParseError::Overflow), scaled down so that an endpoint can exceed it.
UrlOffsetLimit == 32

----------------------------------------------------------------------------
(* Option and Result values.                                               *)

None == [some |-> FALSE]
Some(v) == [some |-> TRUE, val |-> v]
Ok(v) == [ok |-> TRUE, val |-> v]
Err(e) == [ok |-> FALSE, err |-> e]

\* failure::Error, by the kind of its cause; an API error carries the message.
Error(kind) == [kind |-> kind, message |-> ""]

----------------------------------------------------------------------------
(* Strings.                                                                *)

RECURSIVE Concat(_)
Concat(ss) == IF ss = <<>> THEN <<>> ELSE Head(ss) \o Concat(Tail(ss))

\* Byte values of the characters the model's inputs are written in.
Byte(ch) ==
    CASE ch = "\"" -> 34
      [] ch = "1" -> 49
      [] ch = "2" -> 50
      [] ch = "?" -> 63
      [] ch = "a" -> 97
      [] ch = "b" -> 98
      [] ch = "o" -> 111
      [] ch = "x" -> 120

\* Ord for String: bytewise lexicographic, a proper prefix first.
RECURSIVE StrLess(_, _)
StrLess(s, t) ==
    IF t = <<>> THEN FALSE
    ELSE IF s = <<>> THEN TRUE
    ELSE IF Head(s) = Head(t) THEN StrLess(Tail(s), Tail(t))
    ELSE Byte(Head(s)) < Byte(Head(t))

Digit(d) ==
    CASE d = 0 -> "0" [] d = 1 -> "1" [] d = 2 -> "2" [] d = 3 -> "3" [] d = 4 -> "4"
      [] d = 5 -> "5" [] d = 6 -> "6" [] d = 7 -> "7" [] d = 8 -> "8" [] d = 9 -> "9"

\* Display for i64, as format!("{}", expires) prints it.
RECURSIVE Decimal(_)
Decimal(n) ==
    IF n < 0 THEN <<"-">> \o Decimal(0 - n)
    ELSE IF n < 10 THEN <<Digit(n)>>
    ELSE Decimal(n \div 10) \o <<Digit(n % 10)>>

\* Index of the first occurrence of ch in s, 0 when there is none.
FirstIndex(s, ch) ==
    IF \E i \in 1..Len(s) : s[i] = ch
    THEN CHOOSE i \in 1..Len(s) : s[i] = ch /\ \A j \in 1..(i - 1) : s[j] # ch
    ELSE 0

----------------------------------------------------------------------------
(* Url: parsing of BASE/endpoint and the query pairs appended to it.        *)

\* const BASE, split where Url::parse splits it: scheme and host, then the path.
Origin == <<"h","t","t","p","s",":","/","/","w","w","w",".","b","i","t","m","e","x",".","c","o","m">>
BasePath == <<"/","a","p","i","/","v","1">>
BASE == Origin \o BasePath

\* format!("{}/{}", BASE, endpoint)
FormatUrl(endpoint) == BASE \o <<"/">> \o endpoint

\* Url::as_str: the serialization handed to Request::builder().uri(..)
as_str(url) ==
    Origin \o url.path \o (IF url.query.some THEN <<"?">> \o url.query.val ELSE <<>>)

\* Url::parse on a string that starts with BASE: the path runs to the first
\* "?", the query is what follows it; an offset beyond the limit is
\* ParseError::Overflow. (The inputs hold no "#", no "." segment and no
\* character the path or query encode sets rewrite.)
Url_parse(s) ==
    LET rest == SubSeq(s, Len(Origin) + 1, Len(s))
        q == FirstIndex(rest, "?")
    IN  IF q = 0 THEN Ok([path |-> rest, query |-> None])
        ELSE IF Len(Origin) + q - 1 > UrlOffsetLimit THEN Err(Error("UrlError"))
        ELSE Ok([path |-> SubSeq(rest, 1, q - 1),
                 query |-> Some(SubSeq(rest, q + 1, Len(rest)))])

HexDigit(d) ==
    IF d < 10 THEN Digit(d)
    ELSE CASE d = 10 -> "A" [] d = 11 -> "B" [] d = 12 -> "C"
           [] d = 13 -> "D" [] d = 14 -> "E" [] d = 15 -> "F"

\* application/x-www-form-urlencoded byte serializer: ASCII letters and digits
\* stay, every other byte of the inputs becomes %XX.
FormEncodeChar(ch) ==
    LET b == Byte(ch)
    IN  IF (48 <= b /\ b <= 57) \/ (65 <= b /\ b <= 90) \/ (97 <= b /\ b <= 122)
        THEN <<ch>>
        ELSE <<"%", HexDigit(b \div 16), HexDigit(b % 16)>>

RECURSIVE FormEncode(_)
FormEncode(s) == IF s = <<>> THEN <<>> ELSE FormEncodeChar(Head(s)) \o FormEncode(Tail(s))

\* form_urlencoded::Serializer::append_pair on the query being built.
append_pair(query, pair) ==
    (IF Len(query) > 0 THEN query \o <<"&">> ELSE query)
        \o FormEncode(pair[1]) \o <<"=">> \o FormEncode(pair[2])

RECURSIVE extend_pairs(_, _)
extend_pairs(query, pairs) ==
    IF pairs = <<>> THEN query
    ELSE extend_pairs(append_pair(query, Head(pairs)), Tail(pairs))

\* Url::parse_with_params: parse, then query_pairs_mut().extend_pairs(p); the
\* query exists afterwards even when p is empty.
Url_parse_with_params(s, p) ==
    LET parsed == Url_parse(s)
        url == parsed.val
    IN  IF ~parsed.ok THEN parsed
        ELSE Ok([url EXCEPT !.query =
                    Some(extend_pairs(IF url.query.some THEN url.query.val ELSE <<>>, p))])

\* Lines 118-122 and 159-163: the URL of a call.
BuildUrl(endpoint, params) ==
    IF params.some THEN Url_parse_with_params(FormatUrl(endpoint), params.val)
    ELSE Url_parse(FormatUrl(endpoint))

----------------------------------------------------------------------------
(* Body: BTreeMap collection and serde_json serialization.                  *)

\* BTreeMap::insert on the map kept as its key-ordered sequence of entries:
\* an existing key has its value replaced.
RECURSIVE BTreeInsert(_, _)
BTreeInsert(m, pair) ==
    IF m = <<>> THEN <<pair>>
    ELSE IF Head(m)[1] = pair[1] THEN <<pair>> \o Tail(m)
    ELSE IF StrLess(pair[1], Head(m)[1]) THEN <<pair>> \o m
    ELSE <<Head(m)>> \o BTreeInsert(Tail(m), pair)

\* .collect::<BTreeMap<_, _>>(): the pairs inserted in the caller's order.
RECURSIVE CollectInto(_, _)
CollectInto(m, pairs) ==
    IF pairs = <<>> THEN m ELSE CollectInto(BTreeInsert(m, Head(pairs)), Tail(pairs))

\* Collecting into a Vec: the caller's order and every duplicate kept.
collect_Vec(pairs) == pairs

collect_BTreeMap(pairs) == CollectInto(<<>>, pairs)

\* serde_json string escaping of the characters the inputs hold.
JsonEscapeChar(ch) == IF ch = "\"" \/ ch = "\\" THEN <<"\\", ch>> ELSE <<ch>>

RECURSIVE JsonEscape(_)
JsonEscape(s) == IF s = <<>> THEN <<>> ELSE JsonEscapeChar(Head(s)) \o JsonEscape(Tail(s))

JsonString(s) == <<"\"">> \o JsonEscape(s) \o <<"\"">>

RECURSIVE JsonEntries(_)
JsonEntries(m) ==
    IF m = <<>> THEN <<>>
    ELSE JsonString(Head(m)[1]) \o <<":">> \o JsonString(Head(m)[2])
            \o (IF Tail(m) = <<>> THEN <<>> ELSE <<",">> \o JsonEntries(Tail(m)))

\* serde_json::to_string / to_vec of a BTreeMap<String, String>: compact object.
to_string(m) == <<"{">> \o JsonEntries(m) \o <<"}">>

\* Lines 165-177: the body string of a signed request.
SignedBody(data) ==
    IF data.some THEN to_string(collect_BTreeMap(data.val)) ELSE <<>>

\* Lines 124-136: the body of an unsigned request (Body::empty() holds no bytes).
UnsignedBody(data) ==
    IF data.some THEN to_string(collect_BTreeMap(data.val)) ELSE <<>>

----------------------------------------------------------------------------
(* Signer.                                                                  *)

\* Method::as_str
MethodStr(method) ==
    CASE method = "GET" -> <<"G","E","T">>
      [] method = "POST" -> <<"P","O","S","T">>
      [] method = "PUT" -> <<"P","U","T">>
      [] method = "DELETE" -> <<"D","E","L","E","T","E">>

\* check_key that lets a missing credential through with empty strings.
check_key_lenient(cred) == IF cred.some THEN Ok(cred.val) ELSE Ok(<<<<>>, <<>>>>)

\* Transport::check_key
check_key(cred) == IF cred.some THEN Ok(cred.val) ELSE Err(Error("NoApiKeySet"))

\* sign_message as the comment of line 203 words it: verb + path + expires + data.
sign_message_noquery(method, expires, url, body) ==
    MethodStr(method) \o url.path \o Decimal(expires) \o body

\* Lines 205-208: the message the HMAC is computed over.
sign_message(method, expires, url, body) ==
    IF url.query.some
    THEN MethodStr(method) \o url.path \o <<"?">> \o url.query.val \o Decimal(expires) \o body
    ELSE MethodStr(method) \o url.path \o Decimal(expires) \o body

\* hmac::sign and hex::encode, kept as the term they are computed from: two
\* signatures are equal exactly when secret and message are.
hmac_sign(secret, message) == [alg |-> "HMAC-SHA256", secret |-> secret, message |-> message]
hexify(digest) == [hex |-> digest]

\* Transport::signature
signature(cred, method, expires, url, body) ==
    LET checked == check_key(cred)
        key == checked.val[1]
        secret == checked.val[2]
    IN  IF ~checked.ok THEN checked
        ELSE Ok([key |-> key,
                 signature |-> hexify(hmac_sign(secret, sign_message(method, expires, url, body)))])

----------------------------------------------------------------------------
(* Building the request of a call.                                          *)

\* const EXPIRE_DURATION
EXPIRE_DURATION == 5

\* Line 179: (Utc::now() + Duration::seconds(EXPIRE_DURATION)).timestamp()
Expires(clock) == clock + EXPIRE_DURATION

\* Signing with the verb of the request itself.
SigningMethodOfRequest(method) == method

\* Line 180: the verb signed_request hands to signature, whatever `method` is.
SigningMethod(method) == "GET"

\* HeaderValue: no line break (or other control byte) may occur in it.
HeaderValueValid(s) == \A i \in 1..Len(s) : s[i] # "\n"

\* Line 138: the headers of an unsigned request.
UnsignedHeaders == [h \in {"content-type"} |-> "application/json"]

\* Signed headers with the api-key header left out.
SignedHeaders_noKey(expires, key, sig) ==
    [h \in {"api-expires", "api-signature", "content-type"} |->
        CASE h = "api-expires" -> Decimal(expires)
          [] h = "api-signature" -> sig
          [] h = "content-type" -> "application/json"]

\* Lines 185-188: the headers of a signed request.
SignedHeaders(expires, key, sig) ==
    [h \in {"api-expires", "api-key", "api-signature", "content-type"} |->
        CASE h = "api-expires" -> Decimal(expires)
          [] h = "api-key" -> key
          [] h = "api-signature" -> sig
          [] h = "content-type" -> "application/json"]

\* Request::builder().method(..).uri(..).header(..).body(..)?: the only value
\* that can be refused is the caller's key (a decimal, a hex digest and a
\* literal are always valid header values).
RequestBuilder(method, uri, headers, body) ==
    IF "api-key" \in DOMAIN headers /\ ~HeaderValueValid(headers["api-key"])
    THEN Err(Error("HttpError"))
    ELSE Ok([method |-> method, uri |-> uri, headers |-> headers, body |-> body])

\* Body::empty() in place of Body::from(body).
BodyEmpty(body) == <<>>

\* Line 189: Body::from(body), the bytes of the string.
BodyFrom(body) == body

\* Transport::request, up to the request handed to self.client.request.
request(method, endpoint, params, data) ==
    LET url == BuildUrl(endpoint, params)
    IN  IF ~url.ok THEN url
        ELSE RequestBuilder(method, as_str(url.val), UnsignedHeaders, UnsignedBody(data))

\* Transport::signed_request, up to the request handed to self.client.request;
\* `clock` is the reading Utc::now() returns.
signed_request(cred, clock, method, endpoint, params, data) ==
    LET url == BuildUrl(endpoint, params)
        body == SignedBody(data)
        expires == Expires(clock)
        signed == signature(cred, SigningMethod(method), expires, url.val, body)
    IN  IF ~url.ok THEN url
        ELSE IF ~signed.ok THEN signed
        ELSE RequestBuilder(method, as_str(url.val),
                            SignedHeaders(expires, signed.val.key, signed.val.signature),
                            BodyFrom(body))

----------------------------------------------------------------------------
(* Response decoding.                                                       *)

\* The stages of handle_response, in the order the combinators chain them.
Stages == <<"response", "body", "parse", "unwrap">>

\* Deserialize for BitMEXResponse<O>: bytes that are not JSON, or JSON that is
\* neither an error object nor a value of type O, are refused; an error
\* object is recognised before O is tried.
deserialize_BitMEXResponse(chunk) ==
    IF ~chunk.json THEN Err(Error("DecodeError"))
    ELSE IF chunk.error.some THEN Ok([variant |-> "Error", error |-> chunk.error.val, value |-> ""])
    ELSE IF chunk.matches THEN Ok([variant |-> "Success", error |-> [message |-> "", name |-> ""], value |-> chunk.value])
    ELSE Err(Error("DecodeError"))

\* BitMEXResponse::to_result
to_result(resp) ==
    IF resp.variant = "Error"
    THEN Err([kind |-> "ApiError", message |-> resp.error.message])
    ELSE Ok(resp.value)

\* Line 220: .and_then(|chunk| Ok(from_slice(&chunk)?))
ParseJson(chunk) == deserialize_BitMEXResponse(chunk)

\* Unwrapping that hands the envelope's value on without looking at its variant.
UnwrapEnvelope_unchecked(resp) == Ok(resp.value)

\* Line 221: .and_then(|resp: BitMEXResponse<O>| Ok(resp.to_result()?))
UnwrapEnvelope(resp) == to_result(resp)

\* A chain that parses the body a second time when the first parse fails.
DecodeBody_retry(chunk) ==
    LET parsed == ParseJson(chunk)
    IN  IF parsed.ok
        THEN [result |-> UnwrapEnvelope(parsed.val), ran |-> <<"body", "parse", "unwrap">>]
        ELSE [result |-> ParseJson(chunk), ran |-> <<"body", "parse", "parse">>]

\* Lines 216-221: what the chain does with a complete body; and_then runs the
\* next closure only on Ok.
DecodeBody(chunk) ==
    LET parsed == ParseJson(chunk)
    IN  IF parsed.ok
        THEN [result |-> UnwrapEnvelope(parsed.val), ran |-> <<"body", "parse", "unwrap">>]
        ELSE [result |-> parsed, ran |-> <<"body", "parse">>]

----------------------------------------------------------------------------
(* Inputs.                                                                  *)

\* The timestamp of test_signature_get, taken as the clock's first reading.
StartTime == 1518064236

RECURSIVE SeqsUpTo(_, _)
SeqsUpTo(S, n) ==
    IF n = 0 THEN {<<>>}
    ELSE LET shorter == SeqsUpTo(S, n - 1)
         IN  shorter \cup {Append(q, x) : q \in shorter, x \in S}

\* (key, value) pairs a caller may pass: two keys ordered by a prefix, a key
\* given two values, a value that needs escaping.
Pairs == { <<<<"a">>, <<"1">>>>, <<<<"a">>, <<"\"">>>>, <<<<"a", "b">>, <<"1">>>>, <<<<"b">>, <<"2">>>> }

\* Option<I>: None, or Some of a sequence of pairs.
ArgOptions == {None} \cup {Some(q) : q \in SeqsUpTo(Pairs, MaxFields)}

\* An endpoint whose "?" lies beyond the offset limit.
LongEndpoint == [i \in 1..(UrlOffsetLimit - Len(BASE) + 1) |-> "x"] \o <<"?">>

Endpoints == { <<"o">>, <<"o", "?", "x">>, LongEndpoint }

\* Transport::new() and Transport::with_credential(key, secret); the second
\* key holds a line break.
Credentials == { None, Some(<<<<"k">>, <<"s">>>>), Some(<<<<"k", "\n">>, <<"s">>>>) }

\* Response bodies: bytes that are no JSON, an error object, an error object
\* that O would accept too, a value of type O, JSON of another shape.
ApiErrorObject == [message |-> "x", name |-> "y"]
Chunks ==
    { [json |-> FALSE, error |-> None, matches |-> FALSE, value |-> ""],
      [json |-> TRUE, error |-> Some(ApiErrorObject), matches |-> FALSE, value |-> ""],
      [json |-> TRUE, error |-> Some(ApiErrorObject), matches |-> TRUE, value |-> "v"],
      [json |-> TRUE, error |-> None, matches |-> TRUE, value |-> "v"],
      [json |-> TRUE, error |-> None, matches |-> FALSE, value |-> ""] }

CallIds == 1..MaxCalls

----------------------------------------------------------------------------
(* State machine.                                                           *)

IdleCall ==
    [pc |-> "idle", op |-> "", endpoint |-> <<>>, args |-> None, clock |-> 0,
     req |-> None, result |-> None, ran |-> <<>>, chunk |-> None]

\* The call after its synchronous part: a handle on Ok (nothing is sent until
\* the future is polled), the error on Err.
Called(op, endpoint, args, built) ==
    [pc |-> IF built.ok THEN "created" ELSE "rejected",
     op |-> op, endpoint |-> endpoint, args |-> args, clock |-> now,
     req |-> IF built.ok THEN Some(built.val) ELSE None,
     result |-> IF built.ok THEN None ELSE Some(built),
     ran |-> <<>>, chunk |-> None]

\* Transport::new / Transport::with_credential
Init ==
    /\ credential \in Credentials
    /\ client = [connector |-> "https", threads |-> 4]
    /\ wire = {}
    /\ now = StartTime
    /\ calls = [c \in CallIds |-> IdleCall]
    /\ signer = None

get(c, endpoint, params) ==
    /\ calls[c].pc = "idle"
    /\ calls' = [calls EXCEPT ![c] =
            Called("get", endpoint, params, request("GET", endpoint, params, None))]
    /\ UNCHANGED <<credential, client, wire, now, signer>>

signed_get(c, endpoint, params) ==
    /\ calls[c].pc = "idle"
    /\ calls' = [calls EXCEPT ![c] =
            Called("signed_get", endpoint, params,
                   signed_request(credential, now, "GET", endpoint, params, None))]
    /\ UNCHANGED <<credential, client, wire, now, signer>>

signed_post(c, endpoint, data) ==
    /\ calls[c].pc = "idle"
    /\ calls' = [calls EXCEPT ![c] =
            Called("signed_post", endpoint, data,
                   signed_request(credential, now, "POST", endpoint, None, data))]
    /\ UNCHANGED <<credential, client, wire, now, signer>>

signed_put(c, endpoint, params) ==
    /\ calls[c].pc = "idle"
    /\ calls' = [calls EXCEPT ![c] =
            Called("signed_put", endpoint, params,
                   signed_request(credential, now, "PUT", endpoint, params, None))]
    /\ UNCHANGED <<credential, client, wire, now, signer>>

signed_delete(c, endpoint, params) ==
    /\ calls[c].pc = "idle"
    /\ calls' = [calls EXCEPT ![c] =
            Called("signed_delete", endpoint, params,
                   signed_request(credential, now, "DELETE", endpoint, params, None))]
    /\ UNCHANGED <<credential, client, wire, now, signer>>

\* First poll of the returned future: the client sends the request.
Poll(c) ==
    /\ calls[c].pc = "created"
    /\ wire' = wire \cup {[call |-> c, req |-> calls[c].req.val, at |-> now]}
    /\ calls' = [calls EXCEPT ![c].pc = "await_response"]
    /\ UNCHANGED <<credential, client, now, signer>>

\* Line 214: the exchange completes.
ResponseArrives(c) ==
    /\ calls[c].pc = "await_response"
    /\ calls' = [calls EXCEPT ![c].pc = "await_body", ![c].ran = <<"response">>]
    /\ UNCHANGED <<credential, client, wire, now, signer>>

\* Line 214: fut.from_err::<Error>() on a connection, TLS or protocol failure.
ResponseFails(c) ==
    /\ calls[c].pc = "await_response"
    /\ calls' = [calls EXCEPT ![c].pc = "resolved", ![c].ran = <<"response">>,
                              ![c].result = Some(Err(Error("TransportError")))]
    /\ UNCHANGED <<credential, client, wire, now, signer>>

\* A body that resolves every call waiting for one, not only its own.
BodyArrives_broadcast(c, chunk) ==
    /\ calls[c].pc = "await_body"
    /\ LET d == DecodeBody(chunk)
       IN  calls' = [x \in CallIds |->
                IF calls[x].pc = "await_body"
                THEN [calls[x] EXCEPT !.pc = "resolved", !.ran = @ \o d.ran,
                                      !.chunk = Some(chunk), !.result = Some(d.result)]
                ELSE calls[x]]
    /\ UNCHANGED <<credential, client, wire, now, signer>>

\* Lines 215-221: concat2 completes and the rest of the chain runs on the bytes.
BodyArrives(c, chunk) ==
    /\ calls[c].pc = "await_body"
    /\ LET d == DecodeBody(chunk)
       IN  calls' = [calls EXCEPT ![c].pc = "resolved", ![c].ran = @ \o d.ran,
                                  ![c].chunk = Some(chunk), ![c].result = Some(d.result)]
    /\ UNCHANGED <<credential, client, wire, now, signer>>

\* Line 215: concat2().from_err::<Error>() on a failure while the body streams.
BodyFails(c) ==
    /\ calls[c].pc = "await_body"
    /\ calls' = [calls EXCEPT ![c].pc = "resolved", ![c].ran = @ \o <<"body">>,
                              ![c].result = Some(Err(Error("TransportError")))]
    /\ UNCHANGED <<credential, client, wire, now, signer>>

\* A second of wall-clock time passes.
Tick ==
    /\ now < StartTime + MaxTicks
    /\ now' = now + 1
    /\ UNCHANGED <<credential, client, wire, calls, signer>>

\* One caller: a single call, over every input.
Next ==
    \/ \E e \in Endpoints, a \in ArgOptions : get(1, e, a)
    \/ \E e \in Endpoints, a \in ArgOptions : signed_get(1, e, a)
    \/ \E e \in Endpoints, a \in ArgOptions : signed_post(1, e, a)
    \/ \E e \in Endpoints, a \in ArgOptions : signed_put(1, e, a)
    \/ \E e \in Endpoints, a \in ArgOptions : signed_delete(1, e, a)
    \/ Poll(1)
    \/ ResponseArrives(1)
    \/ ResponseFails(1)
    \/ \E k \in Chunks : BodyArrives(1, k)
    \/ BodyFails(1)
    \/ Tick

Spec == Init /\ [][Next]_vars

\* Several calls in flight on one shared Transport that holds a credential:
\* an unsigned and a signed operation, each on one input, and two response
\* bodies (the failures of one exchange are covered by Spec).
SharedData == Some(<<<<<<"a">>, <<"1">>>>>>)
SharedChunks == { k \in Chunks : k.json /\ (k.error.some => ~k.matches) /\ (k.error.some \/ k.matches) }

InitShared == Init /\ credential = Some(<<<<"k">>, <<"s">>>>)

NextShared ==
    \/ \E c \in CallIds : get(c, <<"o">>, None)
    \/ \E c \in CallIds : signed_post(c, <<"o">>, SharedData)
    \/ \E c \in CallIds : Poll(c)
    \/ \E c \in CallIds : ResponseArrives(c)
    \/ \E c \in CallIds, k \in SharedChunks : BodyArrives(c, k)
    \/ Tick

SpecShared == InitShared /\ [][NextShared]_vars

\* Direct calls of Transport::signature, as test_signature_get,
\* test_signature_get_param and test_signature_post make them.
Methods == {"GET", "POST", "PUT", "DELETE"}
ExpiresInputs == {0 - 1, 9, StartTime, StartTime + 2}
SignerParams == {None} \cup {Some(q) : q \in SeqsUpTo(Pairs, 1)}
SignerBodies == { SignedBody(d) : d \in SignerParams }

call_signature(method, expires, url, body) ==
    /\ signer = None
    /\ signer' = Some([method |-> method, expires |-> expires, url |-> url, body |-> body,
                       out |-> signature(credential, method, expires, url, body)])
    /\ UNCHANGED <<credential, client, wire, now, calls>>

NextSigner ==
    \E m \in Methods, x \in ExpiresInputs, e \in Endpoints, p \in SignerParams, b \in SignerBodies :
        /\ BuildUrl(e, p).ok
        /\ call_signature(m, x, BuildUrl(e, p).val, b)

SpecSigner == Init /\ [][NextSigner]_vars

----------------------------------------------------------------------------
(* What the claims speak of.                                                *)

SignedOps == {"signed_get", "signed_post", "signed_put", "signed_delete"}

\* Lines 58, 68, 78, 88, 98: the verb each operation passes on.
VerbOf(op) ==
    CASE op = "get" -> "GET"
      [] op = "signed_get" -> "GET"
      [] op = "signed_post" -> "POST"
      [] op = "signed_put" -> "PUT"
      [] op = "signed_delete" -> "DELETE"

\* Line 78 against lines 68, 88, 98: signed_post passes its argument as data,
\* the others pass theirs as params.
ParamsOf(k) == IF k.op = "signed_post" THEN None ELSE k.args
DataOf(k) == IF k.op = "signed_post" THEN k.args ELSE None

IsPrefix(s, t) == Len(s) <= Len(t) /\ SubSeq(t, 1, Len(s)) = s

Sent(c) == \E w \in wire : w.call = c

\* The signed message of a signed request, read back from its signature.
MessageOf(req) == req.headers["api-signature"].hex.message

SignedWire == { w \in wire : calls[w.call].op \in SignedOps }

NoApiKeySet == Some(Err(Error("NoApiKeySet")))

----------------------------------------------------------------------------
(* C1 *)

NoCredentialCalls ==
    { c \in CallIds : credential = None /\ calls[c].op \in SignedOps }

----------------------------------------------------------------------------
(* C2 *)

\* The digits of StartTime, written out.
StartTimeDigits == <<"1", "5", "1", "8", "0", "6", "4", "2", "3", "6">>

\* C2: the message signature feeds to the HMAC is VERB PATH "?" QUERY EXPIRES
\* BODY when the URL has a query and VERB PATH EXPIRES BODY otherwise, PATH
\* being the path alone and EXPIRES the decimal timestamp; so a URL with a
\* query never gives the message of the same URL without one.
C2_SignedMessage ==
    (signer.some /\ signer.val.out.ok) =>
        LET in == signer.val
            msg == in.out.val.signature.hex.message
            verb == MethodStr(in.method)
            bare == [in.url EXCEPT !.query = None]
        IN  /\ in.url.query.some =>
                msg = Concat(<<verb, in.url.path, <<"?">>, in.url.query.val, Decimal(in.expires), in.body>>)
            /\ ~in.url.query.some =>
                msg = Concat(<<verb, in.url.path, Decimal(in.expires), in.body>>)
            /\ IsPrefix(Origin \o in.url.path, as_str(in.url))
            /\ ~IsPrefix(verb \o Origin, msg)
            /\ in.expires = StartTime => Decimal(in.expires) = StartTimeDigits
            /\ in.url.query.some =>
                msg # signature(credential, in.method, in.expires, bare, in.body).val.signature.hex.message

C2_Witness ==
    /\ signer.some /\ signer.val.out.ok
    /\ signer.val.method = "POST"
    /\ signer.val.url.query.some /\ signer.val.url.query.val # <<>>
    /\ signer.val.body # <<>>
    /\ signer.val.expires = StartTime

----------------------------------------------------------------------------
(* C3 *)

\* The expiry a signed request carries in its api-expires header.
ExpiresOf(req) ==
    CHOOSE x \in StartTime..(StartTime + MaxTicks + EXPIRE_DURATION) :
        Decimal(x) = req.headers["api-expires"]

\* C3: the body string handed to the signer is the body the dispatched
\* request transmits: the signed message is the one signature computes for
\* the transmitted body.
C3_SignedBodyIsSentBody ==
    \A w \in SignedWire :
        LET url == Url_parse(w.req.uri).val
        IN  /\ MessageOf(w.req) = sign_message("GET", ExpiresOf(w.req), url, w.req.body)
            /\ w.req.body = SignedBody(DataOf(calls[w.call]))

C3_Witness ==
    \E w \in SignedWire : calls[w.call].op = "signed_post" /\ Len(w.req.body) > 2

----------------------------------------------------------------------------
(* C4 *)

\* C4: whatever verb a dispatched signed request is sent with, the verb at
\* the head of its signed message is GET, and the request carries the
\* caller's verb.
C4_SignedVerbIsGet ==
    \A w \in SignedWire :
        /\ IsPrefix(MethodStr("GET") \o BasePath, MessageOf(w.req))
        /\ w.req.method = VerbOf(calls[w.call].op)

C4_Witness ==
    \E w \in SignedWire : w.req.method = "DELETE"

----------------------------------------------------------------------------
(* C5 *)

\* C5 as stated: the api-expires of a signed request is the wall clock at the
\* moment the request is sent plus 5 seconds, and the value signed is the
\* value in the header.
C5_ExpiresAtSendTime ==
    \A w \in SignedWire :
        /\ w.req.headers["api-expires"] = Decimal(w.at + EXPIRE_DURATION)
        /\ MessageOf(w.req) =
                sign_message("GET", ExpiresOf(w.req), Url_parse(w.req.uri).val, w.req.body)

----------------------------------------------------------------------------
(* C6 *)

StagesInOrder ==
    \A c \in CallIds :
        LET k == calls[c]
        IN  /\ IsPrefix(k.ran, Stages)
            /\ k.result.some <=> k.pc \in {"resolved", "rejected"}
            /\ k.pc \in {"created", "await_response"} => k.ran = <<>>
            /\ k.pc = "await_body" => k.ran = <<"response">>
            /\ k.pc = "resolved" =>
                LET r == k.result.val
                IN  \/ ~r.ok /\ r.err.kind = "TransportError" /\ Len(k.ran) \in {1, 2}
                    \/ ~r.ok /\ r.err.kind = "DecodeError" /\ Len(k.ran) = 3
                    \/ ~r.ok /\ r.err.kind = "ApiError" /\ k.ran = Stages
                    \/ r.ok /\ k.ran = Stages

ResolvedOnce ==
    \A c \in CallIds :
        /\ calls[c].pc = "resolved" => calls'[c] = calls[c]
        /\ IsPrefix(calls[c].ran, calls'[c].ran)

\* C6: the stages of one request run in the order response, body, parse,
\* unwrap; the request resolves once, at the first stage that fails (a
\* transport error from the first two, a decode error from parse, an API
\* error from unwrap) or with success after the last; nothing runs after a
\* failure and no stage runs twice.
C6_Pipeline == []StagesInOrder /\ [][ResolvedOnce]_vars

C6_Witness ==
    \E c \in CallIds :
        /\ calls[c].pc = "resolved"
        /\ ~calls[c].result.val.ok
        /\ calls[c].result.val.err.kind = "DecodeError"
        /\ calls[c].ran = <<"response", "body", "parse">>

----------------------------------------------------------------------------
(* C7 *)

ApiError(message) == Some(Err([kind |-> "ApiError", message |-> message]))

\* The two outcomes of decoding a body, by the error object in it.
ErrorOrSuccess(k) ==
    /\ k.chunk.val.error.some => k.result = ApiError(k.chunk.val.error.val.message)
    /\ ~k.chunk.val.error.some => k.result = Some(Ok(k.chunk.val.value))

\* C7 as stated: every body that is JSON decodes to the API error when it
\* holds an error object and to the success payload otherwise.
C7_EveryJsonBody ==
    \A c \in CallIds :
        (calls[c].chunk.some /\ calls[c].chunk.val.json) => ErrorOrSuccess(calls[c])

\* C7, amended: every body the parse stage accepts (JSON that is an error
\* object or a value of the expected type) decodes to exactly one of the two
\* outcomes: the API error with the server's message when it holds an error
\* object, the success payload otherwise; an error object never comes out as
\* a success. JSON of any other shape is a decode error.
C7_EnvelopeOutcome ==
    \A c \in CallIds :
        LET k == calls[c]
        IN  /\ (k.chunk.some /\ k.ran = Stages) => ErrorOrSuccess(k)
            /\ (k.chunk.some /\ k.chunk.val.error.some /\ k.result.some) => ~k.result.val.ok

C7_Witness ==
    \E c \in CallIds :
        /\ calls[c].chunk.some
        /\ calls[c].chunk.val.error.some /\ calls[c].chunk.val.matches
        /\ calls[c].result = ApiError("x")

----------------------------------------------------------------------------
(* C8 *)

\* C8: every dispatched request carries content-type: application/json; one
\* made through get carries no other header and no body; one made through a
\* signed operation carries api-expires, api-key and api-signature, the key
\* being the credential's and the signature the signer's output for the
\* request's URL, expiry and body.
C8_Headers ==
    \A w \in wire :
        LET h == w.req.headers
        IN  /\ "content-type" \in DOMAIN h
            /\ h["content-type"] = "application/json"
            /\ calls[w.call].op = "get" =>
                    DOMAIN h = {"content-type"} /\ w.req.body = <<>>
            /\ calls[w.call].op \in SignedOps =>
                /\ {"api-expires", "api-key", "api-signature"} \subseteq DOMAIN h
                /\ credential.some
                /\ h["api-key"] = credential.val[1]
                /\ Ok([key |-> h["api-key"], signature |-> h["api-signature"]]) =
                        signature(credential, "GET", ExpiresOf(w.req),
                                  Url_parse(w.req.uri).val, w.req.body)

C8_Witness ==
    \E w \in wire :
        /\ calls[w.call].op = "signed_put"
        /\ calls[w.call].args.some /\ Len(calls[w.call].args.val) = 2

----------------------------------------------------------------------------
(* C9 *)

Perms(q) ==
    { [i \in 1..Len(q) |-> q[f[i]]] :
        f \in { g \in [1..Len(q) -> 1..Len(q)] : \A i, j \in 1..Len(q) : g[i] = g[j] => i = j } }

\* No field name is given two different values.
NoConflict(q) == \A i, j \in 1..Len(q) : q[i][1] = q[j][1] => q[i][2] = q[j][2]

\* The JSON object of a set of (key, value) pairs, least key first.
RECURSIVE ObjectEntries(_)
ObjectEntries(P) ==
    IF P = {} THEN <<>>
    ELSE LET least == CHOOSE e \in P : \A o \in P : o = e \/ StrLess(e[1], o[1])
         IN  JsonString(least[1]) \o <<":">> \o JsonString(least[2])
                \o (IF P = {least} THEN <<>> ELSE <<",">> \o ObjectEntries(P \ {least}))

SignedPosts ==
    { c \in CallIds : calls[c].op = "signed_post" /\ calls[c].args.some /\ calls[c].req.some }

SameForEveryOrder(c) ==
    \A q \in Perms(calls[c].args.val) :
        signed_request(credential, calls[c].clock, "POST", calls[c].endpoint, None, Some(q))
            = Ok(calls[c].req.val)

\* C9 as stated: every reordering of any sequence of body fields gives the
\* same serialized body and signed message.
C9_AnyOrderSameBody == \A c \in SignedPosts : SameForEveryOrder(c)

\* C9, amended: for every sequence of body fields in which no field name is
\* given two different values, every reordering gives the same serialized
\* body and the same signed request: the JSON object of the field names in
\* ascending order with their values. (Of a name given several values the
\* last one is kept, so the order of such a sequence matters.)
C9_SortedBody ==
    \A c \in SignedPosts :
        NoConflict(calls[c].args.val) =>
            /\ SameForEveryOrder(c)
            /\ calls[c].req.val.body =
                <<"{">> \o ObjectEntries({calls[c].args.val[i] : i \in 1..Len(calls[c].args.val)}) \o <<"}">>

C9_Witness ==
    \E c \in SignedPosts :
        /\ calls[c].args.val = << <<<<"b">>, <<"2">>>>, <<<<"a">>, <<"\"">>>> >>
        /\ Sent(c)

----------------------------------------------------------------------------
(* C10 *)

SameInputs(k, j) ==
    /\ k.pc # "idle" /\ j.pc # "idle"
    /\ k.op = j.op /\ k.endpoint = j.endpoint /\ k.args = j.args /\ k.clock = j.clock

OwnInputsOnly ==
    /\ \A c, d \in CallIds :
        /\ SameInputs(calls[c], calls[d]) => calls[c].req = calls[d].req
        /\ (calls[c].pc = "resolved" /\ calls[d].pc = "resolved"
                /\ calls[c].chunk = calls[d].chunk) => calls[c].result = calls[d].result
    /\ \A w \in wire : calls[w.call].req = Some(w.req)

OneCallPerStep ==
    /\ credential' = credential
    /\ client' = client
    /\ \A c, d \in CallIds : c # d => (calls'[c] = calls[c] \/ calls'[d] = calls[d])

\* C10: under any interleaving of concurrent calls on one Transport, the
\* credential and the client are never modified, a step of one call leaves
\* every other call as it was, and the request and result of a call are
\* determined by its own inputs, clock reading and response.
C10_Independent == []OwnInputsOnly /\ [][OneCallPerStep]_vars

C10_Witness ==
    \E c, d \in CallIds :
        /\ calls[c].pc = "await_body" /\ calls[d].pc = "await_body"
        /\ calls[c].op = "signed_post" /\ calls[d].op = "signed_post"
        /\ calls[c].args = calls[d].args
        /\ calls[c].req # calls[d].req

====
